---- MODULE Spec2Model ----
(***************************************************************************)
(* Consent-gated access to patient data in smartstudy-ai:                   *)
(*   - the Express backend (backend/server.js) and the serverless handlers  *)
(*     (api/reports/[reportId]/...) that serve signed URLs and AI analysis, *)
(*   - the browser functions of reports.js (appointments, consent flags,    *)
(*     getPatientReportsForDoctor) and doctor-dashboard.js                  *)
(*     (updateAppointmentStatus, viewPatientDetails).                       *)
(* Firestore collections are the state; every handler is one action.        *)
(***************************************************************************)
EXTENDS Integers, FiniteSets, Sequences, TLC

\* ------------------------------------------------------------------ bounds
MaxReports == 1        \* medicalReports document ids "1".."MaxReports"
MaxConsents == 1       \* at most this many documents in the consents collection
MaxTime == 1           \* instants 0..MaxTime (UTC hours since day 0)
HoursPerDay == 2       \* wall-clock hours per calendar day of the model

\* ------------------------------------------------------------------ domains
Uids == {"u1", "u2"}
NoUser == "nobody"
Roles == {"patient", "doctor"}
ReportIds == {ToString(i) : i \in 1..MaxReports}
NoReport == "no-report"
ApptIds == {"a1"}
NoAppt == "no-appointment"
NoDoctor == ""         \* value of the 'Choose a doctor...' option of #doctor-select
NoToken == "no-header"
BadToken == "bad-token"
Tokens == Uids \cup {NoToken, BadToken}
ConsentStatuses == {"approved", "revoked"}
ApptStatuses == {"pending", "accepted", "rejected"}
DoctorNotes == {"", "note"}
PlanCollections == {"dietPlans", "exercisePlans"}
TzOffsets == {0, 1}    \* browser time zone, hours east of UTC
Instants == 0..MaxTime

ConsentRecords == [patientId : Uids, doctorId : Uids, status : ConsentStatuses]

VARIABLES
  users,           \* Firestore users: uid -> [role]
  medicalReports,  \* Firestore medicalReports: id -> [patientId, storagePath, analyzedBy]
  consents,        \* Firestore consents: set of [patientId, doctorId, status]
  appointments,    \* Firestore appointments: id -> [patientId, doctorId, date, time, status,
                   \*   consentGranted, consentRevokedAt (TRUE once set)]
  now,             \* current instant (UTC hours since day 0)
  dbReady,         \* server.js: TRUE = admin.firestore(), FALSE = dummy db of the catch branch
  plans,           \* Firestore dietPlans / exercisePlans: the <<collection, userId>> that
                   \* have a document
  storage,         \* Supabase bucket medical-reports: the paths that hold an object
  geminiSrv,       \* server.js: whether GEMINI_API_KEY is set, GEMINI_MODEL_CACHE, and
                   \* the last callGeminiGenerateText call with what it returned
  guard,           \* the browser tab: location, sessionStorage.redirectAfterLogin and the
                   \* AuthGuard instance of the loaded page
  resp,            \* outcome of the last operation: HTTP response, resolved value,
                   \* alert and the content rendered into #patient-details
  prior            \* the signed-url evaluation of the same request that directly
                   \* preceded the one in resp, if any

vars == <<users, medicalReports, consents, appointments, now, dbReady, plans, storage, geminiSrv, guard, resp, prior>>

\* ------------------------------------------------------------------ helpers
EmptyFn == [x \in {} |-> 0]

\* the observable outcome of one operation
\* the file of an upload request: <<file.type, file.size > 10 MB>>
NoFile == <<"none", FALSE>>

Resp(op, uid, rid, pid, aid, status, success, decision, data, msg, roleReadThrew, storageFailed) ==
  [op |-> op, uid |-> uid, rid |-> rid, pid |-> pid, aid |-> aid,
   status |-> status, success |-> success, decision |-> decision,
   data |-> data, msg |-> msg, roleReadThrew |-> roleReadThrew,
   storageFailed |-> storageFailed, at |-> now,
   authHeader |-> TRUE, aiCalled |-> FALSE, rejected |-> FALSE, sent |-> FALSE,
   file |-> NoFile, did |-> NoUser]

\* the response to a request without an 'Authorization: Bearer ' header
NoHeader(r) == [r EXCEPT !.authHeader = FALSE]

\* the response of a handler that reached its Gemini call
WithAiCall(r) == [r EXCEPT !.aiCalled = TRUE]

\* the outcome of an async function whose promise rejects
Rejects(r) == [r EXCEPT !.rejected = TRUE, !.success = FALSE]

\* the outcome of a browser function that sent its request to the backend
Sent(r) == [r EXCEPT !.sent = TRUE]

\* the outcome of a call that named this doctor
ForDoctor(r, doctorId) == [r EXCEPT !.did = doctorId]

\* the outcome of an upload whose file has this type and is / is not over 10 MB
WithFile(r, fileType, tooLarge) == [r EXCEPT !.file = <<fileType, tooLarge>>]

NoResp == [op |-> "none", uid |-> NoUser, rid |-> NoReport, pid |-> NoUser, aid |-> NoAppt,
           status |-> 0, success |-> FALSE, decision |-> "NONE", data |-> {}, msg |-> "",
           roleReadThrew |-> FALSE, storageFailed |-> FALSE, at |-> 0,
           authHeader |-> TRUE, aiCalled |-> FALSE, rejected |-> FALSE, sent |-> FALSE,
   file |-> NoFile, did |-> NoUser]

NoPrior == [decision |-> "NONE", at |-> 0]

\* the evaluation in resp, when r repeats its request (same endpoint, requester,
\* report and role-read outcome) and both reached the access rules
PriorOf(r) ==
  IF /\ resp.op = r.op /\ resp.uid = r.uid /\ resp.rid = r.rid
     /\ resp.roleReadThrew = r.roleReadThrew
     /\ resp.decision # "NONE" /\ r.decision # "NONE"
  THEN [decision |-> resp.decision, at |-> resp.at]
  ELSE NoPrior

\* db as the server sees it: the dummy db answers every doc().get() with
\* { exists: false } and every query with { empty: true }
SrvUsers == IF dbReady THEN users ELSE EmptyFn
SrvReports == IF dbReady THEN medicalReports ELSE EmptyFn
SrvConsents == IF dbReady THEN consents ELSE {}

\* variant: the status filter of the query is missing
ConsentQueryAnyStatus(coll, patientId, doctorId) ==
  {c \in coll : c.patientId = patientId /\ c.doctorId = doctorId}

\* db.collection('consents').where(patientId).where(doctorId).where(status == 'approved')
ConsentQuery(coll, patientId, doctorId) ==
  {c \in coll : c.patientId = patientId /\ c.doctorId = doctorId /\ c.status = "approved"}

\* variant: a failed read of the user document does not clear the role
RequesterRoleKeptOnThrow(userId, readThrows) ==
  IF userId \in DOMAIN SrvUsers THEN SrvUsers[userId].role ELSE "null"

\* requesterRole of the signed-url handlers: null unless the user document was
\* read and carries a role
RequesterRole(userId, readThrows) ==
  IF readThrows THEN "null"
  ELSE IF userId \in DOMAIN SrvUsers THEN SrvUsers[userId].role ELSE "null"

\* variant: any stored role passes for a doctor
IsDoctorRoleAnyRole(requesterRole) == requesterRole # "null"

IsDoctorRole(requesterRole) == requesterRole = "doctor"

\* variant: only the owner is let through
SignedUrlDecisionOwnerOnly(isOwner, isDoctor, consentEmpty) ==
  IF ~isOwner THEN "DENY"
  ELSE IF isDoctor /\ consentEmpty THEN "DENY"
  ELSE "ALLOW"

\* variant: a doctor's consent lapses once the clock has advanced
SignedUrlDecisionTimed(isOwner, isDoctor, consentEmpty) ==
  IF ~isOwner /\ ~isDoctor THEN "DENY"
  ELSE IF isDoctor /\ (consentEmpty \/ now > 0) THEN "DENY"
  ELSE "ALLOW"

\* the access rules of the signed-url handlers (both revisions):
\* 403 when neither owner nor doctor; a doctor additionally needs a consent record
SignedUrlDecision(isOwner, isDoctor, consentEmpty) ==
  IF ~isOwner /\ ~isDoctor THEN "DENY"
  ELSE IF isDoctor /\ consentEmpty THEN "DENY"
  ELSE "ALLOW"

SignedUrlItem(report) == <<"signedUrl", report.patientId, report.storagePath>>

\* GET /api/reports/:reportId/signed-url, as a function of the request and the db
SignedUrlHandler(op, token, reportId, roleReadThrows, storageError) ==
  IF token = NoToken THEN
    NoHeader(Resp(op, NoUser, reportId, NoUser, NoAppt, 401, FALSE, "NONE", {}, "Authorization token required", FALSE, FALSE))
  ELSE IF token = BadToken THEN
    Resp(op, NoUser, reportId, NoUser, NoAppt, 500, FALSE, "NONE", {}, "Failed to generate signed URL", FALSE, FALSE)
  ELSE IF reportId \notin DOMAIN SrvReports THEN
    Resp(op, token, reportId, NoUser, NoAppt, 404, FALSE, "NONE", {}, "Medical report not found", FALSE, FALSE)
  ELSE
    LET reportData == SrvReports[reportId]
        requesterRole == RequesterRole(token, roleReadThrows)
        isOwner == reportData.patientId = token
        isDoctor == IsDoctorRole(requesterRole)
        consentEmpty == ConsentQuery(SrvConsents, reportData.patientId, token) = {}
        decision == SignedUrlDecision(isOwner, isDoctor, consentEmpty)
    IN IF decision = "DENY" THEN
         Resp(op, token, reportId, reportData.patientId, NoAppt, 403, FALSE, "DENY", {},
              IF ~isOwner /\ ~isDoctor THEN "Access denied. Only report owner or authorized doctor"
              ELSE "Access denied. Patient consent required.", roleReadThrows, FALSE)
       ELSE IF storageError THEN
         Resp(op, token, reportId, reportData.patientId, NoAppt, 500, FALSE, "ALLOW", {},
              "Failed to generate signed URL", roleReadThrows, TRUE)
       ELSE
         Resp(op, token, reportId, reportData.patientId, NoAppt, 200, TRUE, "ALLOW",
              {SignedUrlItem(reportData)}, "", roleReadThrows, FALSE)

\* serverless revision of the same endpoint (api/reports/[reportId]/signed-url)
SignedUrlServerlessHandler(token, reportId, roleReadThrows, storageError) ==
  LET op == "signedUrlServerless" IN
  IF token = NoToken THEN
    NoHeader(Resp(op, NoUser, reportId, NoUser, NoAppt, 401, FALSE, "NONE", {}, "Authorization token required", FALSE, FALSE))
  ELSE IF token = BadToken THEN
    Resp(op, NoUser, reportId, NoUser, NoAppt, 500, FALSE, "NONE", {}, "verifyIdToken failed", FALSE, FALSE)
  ELSE IF reportId \notin DOMAIN medicalReports THEN
    Resp(op, token, reportId, NoUser, NoAppt, 404, FALSE, "NONE", {}, "Medical report not found", FALSE, FALSE)
  ELSE
    LET reportData == medicalReports[reportId]
        requesterRole == IF roleReadThrows THEN "null"
                         ELSE IF token \in DOMAIN users THEN users[token].role ELSE "null"
        isOwner == reportData.patientId = token
        isDoctor == requesterRole = "doctor"
    IN IF ~isOwner /\ ~isDoctor THEN
         Resp(op, token, reportId, reportData.patientId, NoAppt, 403, FALSE, "DENY", {},
              "Access denied. Only report owner or authorized doctor", roleReadThrows, FALSE)
       ELSE IF isDoctor /\ ConsentQuery(consents, reportData.patientId, token) = {} THEN
         Resp(op, token, reportId, reportData.patientId, NoAppt, 403, FALSE, "DENY", {},
              "Access denied. Patient consent required.", roleReadThrows, FALSE)
       ELSE IF storageError THEN
         Resp(op, token, reportId, reportData.patientId, NoAppt, 500, FALSE, "ALLOW", {},
              "Failed to generate signed URL", roleReadThrows, TRUE)
       ELSE
         Resp(op, token, reportId, reportData.patientId, NoAppt, 200, TRUE, "ALLOW",
              {SignedUrlItem(reportData)}, "", roleReadThrows, FALSE)

SignedUrlOps == {"signedUrlExpress", "signedUrlServerless"}

\* outcomes of the download / text extraction / Gemini steps of the analyze endpoint
AnalyzePipeline == {"downloadError", "emptyFile", "extractError", "blankText", "aiFail",
                    "updateError", "ok"}

AnalysisItem(reportId, report) == <<"analysis", report.patientId, reportId>>

\* POST /api/reports/:reportId/analyze: the response
AnalyzeHandler(token, reportId, userReadThrows, pipeline) ==
  LET op == "analyze" IN
  IF token = NoToken THEN
    NoHeader(Resp(op, NoUser, reportId, NoUser, NoAppt, 401, FALSE, "NONE", {}, "Authorization token required", FALSE, FALSE))
  ELSE IF token = BadToken \/ userReadThrows THEN
    Resp(op, IF token = BadToken THEN NoUser ELSE token, reportId, NoUser, NoAppt, 500, FALSE, "NONE", {},
         "Failed to analyze medical report", userReadThrows /\ token # BadToken, FALSE)
  ELSE IF token \notin DOMAIN SrvUsers \/ SrvUsers[token].role # "doctor" THEN
    Resp(op, token, reportId,
         IF reportId \in DOMAIN SrvReports THEN SrvReports[reportId].patientId ELSE NoUser,
         NoAppt, 403, FALSE, "DENY", {}, "Access denied. Doctor role required.", FALSE, FALSE)
  ELSE IF reportId \notin DOMAIN SrvReports THEN
    Resp(op, token, reportId, NoUser, NoAppt, 404, FALSE, "NONE", {}, "Medical report not found", FALSE, FALSE)
  ELSE
    LET reportData == SrvReports[reportId] IN
    IF ConsentQuery(SrvConsents, reportData.patientId, token) = {} THEN
      Resp(op, token, reportId, reportData.patientId, NoAppt, 403, FALSE, "DENY", {},
           "Access denied. Patient consent required.", FALSE, FALSE)
    ELSE IF pipeline = "downloadError" THEN
      Resp(op, token, reportId, reportData.patientId, NoAppt, 500, FALSE, "ALLOW", {},
           "Failed to download medical report file", FALSE, TRUE)
    ELSE IF pipeline \in {"emptyFile", "extractError", "blankText"} THEN
      Resp(op, token, reportId, reportData.patientId, NoAppt, 400, FALSE, "ALLOW", {}, pipeline, FALSE, FALSE)
    ELSE IF pipeline = "aiFail" THEN
      WithAiCall(Resp(op, token, reportId, reportData.patientId, NoAppt, 502, FALSE, "ALLOW", {},
                      "Failed to analyze medical report with AI service", FALSE, FALSE))
    ELSE IF pipeline = "updateError" THEN
      WithAiCall(Resp(op, token, reportId, reportData.patientId, NoAppt, 500, FALSE, "ALLOW", {},
                      "Failed to analyze medical report", FALSE, FALSE))
    ELSE
      WithAiCall(Resp(op, token, reportId, reportData.patientId, NoAppt, 200, TRUE, "ALLOW",
                      {AnalysisItem(reportId, reportData)}, "", FALSE, FALSE))

\* variant: the report is stamped as soon as the AI service was called
AnalyzeWriteOnAiCall(r) ==
  IF r.aiCalled /\ dbReady
  THEN [medicalReports EXCEPT ![r.rid].analyzedBy = r.uid]
  ELSE medicalReports

\* the write of the analyze endpoint: aiAnalysis / analyzedBy on success only
AnalyzeWrite(r) ==
  IF r.status = 200 /\ dbReady
  THEN [medicalReports EXCEPT ![r.rid].analyzedBy = r.uid]
  ELSE medicalReports

ReportItem(reportId, report) == <<"report", report.patientId, reportId>>

\* getPatientReportsForDoctor(patientId) of reports.js, run with auth.currentUser = user
GetPatientReportsForDoctor(user, patientId, dbThrows) ==
  LET op == "getPatientReportsForDoctor" IN
  IF user = NoUser THEN
    Resp(op, NoUser, NoReport, patientId, NoAppt, 0, FALSE, "NONE", {}, "No authenticated user.", FALSE, FALSE)
  ELSE IF dbThrows THEN
    Resp(op, user, NoReport, patientId, NoAppt, 0, FALSE, "NONE", {}, "error.message", TRUE, FALSE)
  ELSE IF user \notin DOMAIN users \/ users[user].role # "doctor" THEN
    Resp(op, user, NoReport, patientId, NoAppt, 0, FALSE, "DENY", {}, "Access denied. Doctor role required.", FALSE, FALSE)
  ELSE IF ConsentQuery(consents, patientId, user) = {} THEN
    Resp(op, user, NoReport, patientId, NoAppt, 0, FALSE, "DENY", {}, "Access denied. Patient consent required.", FALSE, FALSE)
  ELSE
    Resp(op, user, NoReport, patientId, NoAppt, 0, TRUE, "ALLOW",
         {ReportItem(rid, medicalReports[rid]) :
            rid \in {x \in DOMAIN medicalReports : medicalReports[x].patientId = patientId}},
         "", FALSE, FALSE)

\* variant: the owner's request is passed on to Gemini
GenerateExplanationHandlerWithAi(op, reports, token, reportId) ==
  IF token = NoToken THEN
    NoHeader(Resp(op, NoUser, reportId, NoUser, NoAppt, 401, FALSE, "NONE", {}, "Authorization token required", FALSE, FALSE))
  ELSE IF token = BadToken THEN
    Resp(op, NoUser, reportId, NoUser, NoAppt, 500, FALSE, "NONE", {}, "Failed to process explanation request", FALSE, FALSE)
  ELSE IF reportId \notin DOMAIN reports THEN
    Resp(op, token, reportId, NoUser, NoAppt, 404, FALSE, "NONE", {}, "Medical report not found", FALSE, FALSE)
  ELSE IF reports[reportId].patientId # token THEN
    Resp(op, token, reportId, reports[reportId].patientId, NoAppt, 403, FALSE, "DENY", {},
         "Access denied. You can only request explanations for your own reports.", FALSE, FALSE)
  ELSE
    WithAiCall(Resp(op, token, reportId, token, NoAppt, 200, FALSE, "ALLOW", {},
                    "Report explanation is available in premium version.", FALSE, FALSE))

\* POST /api/reports/:reportId/generate-explanation (both revisions; reports is
\* the medicalReports collection as the revision's db handle sees it)
GenerateExplanationHandler(op, reports, token, reportId) ==
  IF token = NoToken THEN
    NoHeader(Resp(op, NoUser, reportId, NoUser, NoAppt, 401, FALSE, "NONE", {}, "Authorization token required", FALSE, FALSE))
  ELSE IF token = BadToken THEN
    Resp(op, NoUser, reportId, NoUser, NoAppt, 500, FALSE, "NONE", {}, "Failed to process explanation request", FALSE, FALSE)
  ELSE IF reportId \notin DOMAIN reports THEN
    Resp(op, token, reportId, NoUser, NoAppt, 404, FALSE, "NONE", {}, "Medical report not found", FALSE, FALSE)
  ELSE IF reports[reportId].patientId # token THEN
    Resp(op, token, reportId, reports[reportId].patientId, NoAppt, 403, FALSE, "DENY", {},
         "Access denied. You can only request explanations for your own reports.", FALSE, FALSE)
  ELSE
    Resp(op, token, reportId, token, NoAppt, 200, FALSE, "ALLOW", {},
         "Report explanation is available in premium version.", FALSE, FALSE)

GenerateExplanationOps == {"generateExplanationExpress", "generateExplanationServerless"}

\* variant: the ownership test is missing
DeleteReportOutcomeAnyOwner(user, reportId, confirmed, deleteThrows) ==
  IF ~confirmed THEN "declined"
  ELSE IF user = NoUser THEN "No authenticated user."
  ELSE IF reportId \notin DOMAIN medicalReports THEN "Report not found."
  ELSE IF deleteThrows THEN "Error deleting report"
  ELSE "Report deleted successfully"

\* deleteReport(reportId) of reports.js, run with auth.currentUser = user: the
\* alert it ends with ("declined" when confirm() was answered no)
DeleteReportOutcome(user, reportId, confirmed, deleteThrows) ==
  IF ~confirmed THEN "declined"
  ELSE IF user = NoUser THEN "No authenticated user."
  ELSE IF reportId \notin DOMAIN medicalReports THEN "Report not found."
  ELSE IF medicalReports[reportId].patientId # user THEN "You can only delete your own reports."
  ELSE IF deleteThrows THEN "Error deleting report"
  ELSE "Report deleted successfully"

\* ------------------------------------------------------------------ appointments
\* getUserProfile(uid) of auth.js: success iff the user document exists
GetUserProfileOk(uid) == uid \in DOMAIN users

\* requestAppointment: new Date(dateTime) is read in the browser's zone (tz hours
\* east of UTC); date is the UTC calendar day (toISOString), time the local
\* wall-clock hour (toTimeString)
ApptDate(dateTime, tz) == (dateTime - tz) \div HoursPerDay
ApptTime(dateTime, tz) == dateTime % HoursPerDay

\* viewPatientDetails: new Date(`${date}T${time}`) is parsed as local time of the
\* viewing browser; the result as a UTC instant
AppointmentDateTime(appointment, tz) ==
  appointment.date * HoursPerDay + appointment.time - tz

\* the expiry test of viewPatientDetails
ExpiredCheck(appointment, tz) ==
  AppointmentDateTime(appointment, tz) < now /\ appointment.status = "accepted"

PatientItems(patientId) ==
  {<<"profile", patientId, 0>>, <<"bp", patientId, 0>>, <<"sugar", patientId, 0>>}

\* viewPatientDetails(patientId, appointmentId) of doctor-dashboard.js, run with
\* auth.currentUser = user; data = what is rendered into #patient-details
ViewPatientDetailsResult(user, patientId, appointmentId, tz, reportsThrow, readingsThrow) ==
  LET op == "viewPatientDetails" IN
  IF appointmentId \notin DOMAIN appointments THEN
    Resp(op, user, NoReport, patientId, appointmentId, 0, FALSE, "NONE", {}, "Appointment not found.", FALSE, FALSE)
  ELSE
    LET appointment == appointments[appointmentId] IN
    IF ~appointment.consentGranted THEN
      Resp(op, user, NoReport, patientId, appointmentId, 0, FALSE, "DENY", {},
           "Patient has not granted consent for this appointment.", FALSE, FALSE)
    ELSE IF ExpiredCheck(appointment, tz) THEN
      Resp(op, user, NoReport, patientId, appointmentId, 0, FALSE, "DENY", {},
           "This appointment has expired. Consent is no longer active.", FALSE, FALSE)
    ELSE IF ~GetUserProfileOk(patientId) THEN
      Resp(op, user, NoReport, patientId, appointmentId, 0, FALSE, "NONE", {}, "Patient profile not found.", FALSE, FALSE)
    ELSE
      LET reportsResult == GetPatientReportsForDoctor(user, patientId, reportsThrow)
          reports == IF reportsResult.success THEN reportsResult.data ELSE {}
      IN IF readingsThrow THEN
           Resp(op, user, NoReport, patientId, appointmentId, 0, FALSE, "NONE", {},
                "Error loading patient details.", reportsThrow, FALSE)
         ELSE
           Resp(op, user, NoReport, patientId, appointmentId, 0, TRUE,
                IF reportsResult.success THEN "ALLOW" ELSE "DENY",
                PatientItems(patientId) \cup reports, "", reportsThrow, FALSE)

\* ------------------------------------------------------------------ AuthGuard
\* window.location of the tab: the last path segment
Urls == {"", "index.html", "login.html", "register", "dashboard.html", "reports",
         "profile.html", "exercise.html", "doctor-dashboard.html", "about.html"}
NoUrl == "null"
\* the callbacks that the scripts of a page hand to requireAuth
Callbacks == {"cb1", "cb2"}

\* getCurrentPage(): the last path segment without '.html', 'index' for '/'
GetCurrentPage(url) ==
  CASE url = "" -> "index"
    [] url = "index.html" -> "index"
    [] url = "login.html" -> "login"
    [] url = "register" -> "register"
    [] url = "dashboard.html" -> "dashboard"
    [] url = "reports" -> "reports"
    [] url = "profile.html" -> "profile"
    [] url = "exercise.html" -> "exercise"
    [] url = "doctor-dashboard.html" -> "doctor-dashboard"
    [] OTHER -> "about"

publicPages == {"login", "register", "index"}
protectedPages == {"dashboard", "reports", "profile", "exercise", "doctor-dashboard"}

\* the window of a page just loaded at url, before auth-guard.js has run;
\* sessionStorage survives the navigation. subscriptions counts the listeners
\* registered with auth.onAuthStateChanged, routingCalls the handleRouting()
\* calls made by the listener, invoked[cb] the users cb was called with.
BlankWindow(url, redirectAfterLogin) ==
  [url |-> url, redirectAfterLogin |-> redirectAfterLogin, instance |-> FALSE,
   subscriptions |-> 0, authResolved |-> FALSE, currentUser |-> NoUser,
   initialRoutingDone |-> FALSE, roleCheckFor |-> NoUser, routingCalls |-> 0,
   listeners |-> <<>>, registered |-> {}, throwing |-> {},
   invoked |-> [cb \in Callbacks |-> <<>>]]

\* new AuthGuard(): the constructor with init()
AuthGuardConstructor(g) ==
  IF g.instance THEN g
  ELSE [g EXCEPT !.authResolved = FALSE, !.currentUser = NoUser, !.listeners = <<>>,
                 !.initialRoutingDone = FALSE, !.subscriptions = @ + 1, !.instance = TRUE]

\* a page just loaded at url: auth-guard.js has created window.authGuard
FreshGuard(url, redirectAfterLogin) == AuthGuardConstructor(BlankWindow(url, redirectAfterLogin))

\* window.location.replace(url)
Navigate(g, url) == FreshGuard(url, g.redirectAfterLogin)

\* handleRouting() up to its first await
HandleRouting(g) ==
  LET currentPage == GetCurrentPage(g.url)
      isLoggedIn == g.currentUser # NoUser
  IN IF ~g.authResolved THEN g
     ELSE IF currentPage \in publicPages THEN g
     ELSE IF currentPage \in protectedPages THEN
       IF ~isLoggedIn THEN Navigate([g EXCEPT !.redirectAfterLogin = g.url], "login.html")
       ELSE IF currentPage = "doctor-dashboard" THEN [g EXCEPT !.roleCheckFor = g.currentUser]
       ELSE g
     ELSE g

\* variant: a failed profile read leaves the role undecided in favour of the page
GetCurrentUserRoleOpen(uid, profileThrows) ==
  IF uid = NoUser THEN "patient"
  ELSE IF profileThrows \/ uid \notin DOMAIN users THEN "doctor"
  ELSE IF users[uid].role = "null" THEN "patient"
  ELSE users[uid].role

\* getCurrentUserRole(): the role of the profile, 'patient' when there is no
\* user, no profile, no role in it, or the read fails
GetCurrentUserRole(uid, profileThrows) ==
  IF uid = NoUser THEN "patient"
  ELSE IF profileThrows \/ uid \notin DOMAIN users THEN "patient"
  ELSE IF users[uid].role = "null" THEN "patient"
  ELSE users[uid].role

\* the callbacks of queue run in order with user; a pushed wrapper calls its
\* callback only for a user; stopAtThrow: an exception ends the loop
RECURSIVE RunListeners(_, _, _, _, _)
RunListeners(queue, user, throwing, invoked, stopAtThrow) ==
  IF queue = <<>> THEN invoked
  ELSE LET cb == Head(queue)
           called == user # NoUser
           after == IF called THEN [invoked EXCEPT ![cb] = Append(@, user)] ELSE invoked
       IN IF stopAtThrow /\ called /\ cb \in throwing THEN after
          ELSE RunListeners(Tail(queue), user, throwing, after, stopAtThrow)

\* variant: no try/catch around a callback
NotifyListenersNoCatch(g) ==
  IF g.listeners = <<>> THEN g
  ELSE LET invoked == RunListeners(g.listeners, g.currentUser, g.throwing, g.invoked, TRUE)
           threw == g.currentUser # NoUser /\ \E i \in DOMAIN g.listeners : g.listeners[i] \in g.throwing
       IN [g EXCEPT !.invoked = invoked, !.listeners = IF threw THEN @ ELSE <<>>]

\* notifyListeners()
NotifyListeners(g) ==
  IF g.listeners = <<>> THEN g
  ELSE [g EXCEPT !.invoked = RunListeners(g.listeners, g.currentUser, g.throwing, g.invoked, FALSE),
                 !.listeners = <<>>]

\* variant: the listener routes on every event
AuthListenerAlwaysRoutes(g, user) ==
  LET g1 == [g EXCEPT !.currentUser = user, !.authResolved = TRUE]
      g2 == [HandleRouting(g1) EXCEPT !.routingCalls = g1.routingCalls + 1]
  IN IF g2.url # g.url THEN HandleRouting(g1)
     ELSE NotifyListeners([g2 EXCEPT !.initialRoutingDone = TRUE])

\* the listener that init() registers with auth.onAuthStateChanged; a
\* window.location.replace of handleRouting ends the page
AuthListener(g, user) ==
  LET g1 == [g EXCEPT !.currentUser = user, !.authResolved = TRUE]
      g2 == IF ~g.initialRoutingDone
            THEN [HandleRouting(g1) EXCEPT !.routingCalls = g1.routingCalls + 1]
            ELSE g1
  IN IF g2.url # g.url THEN HandleRouting(g1)
     ELSE NotifyListeners([g2 EXCEPT !.initialRoutingDone = TRUE])

\* requireAuth(callback)
RequireAuth(g, cb, throws) ==
  LET g1 == [g EXCEPT !.registered = @ \cup {cb},
                      !.throwing = IF throws THEN @ \cup {cb} ELSE @]
  IN IF g.authResolved THEN
       IF g.currentUser # NoUser
       THEN [g1 EXCEPT !.invoked[cb] = Append(@, g.currentUser)]
       ELSE HandleRouting(g1)
     ELSE [g1 EXCEPT !.listeners = Append(@, cb)]

\* variant: the stored URL is left in sessionStorage
HandleLoginSuccessKeepsUrl(g) ==
  IF g.redirectAfterLogin # NoUrl
  THEN Navigate(g, g.redirectAfterLogin)
  ELSE Navigate(g, "dashboard.html")

\* handleLoginSuccess()
HandleLoginSuccess(g) ==
  IF g.redirectAfterLogin # NoUrl
  THEN Navigate([g EXCEPT !.redirectAfterLogin = NoUrl], g.redirectAfterLogin)
  ELSE Navigate(g, "dashboard.html")

\* the outcome of a step of the guard: whether handleRouting ran its checks,
\* and where the tab is afterwards
GuardResp(op, user, routed, g) ==
  Resp(op, user, NoReport, NoUser, NoAppt, 0, TRUE, IF routed THEN "ROUTED" ELSE "NONE", {}, g.url, FALSE, FALSE)

\* ------------------------------------------------------------------ Gemini (server.js)
\* the model argument of callGeminiGenerateText
GeminiModels == {"gemini-1.5-flash", "gemini-2.5-flash"}
\* names that ListModels may report
ListedModels == {"gemini-1.5-flash", "models/gemini-1.5-flash", "models/gemini-2.5-flash",
                 "models/embedding-001", "models/text-bison-001"}
NoModel == "null"
\* what listAvailableGeminiModels() returns: [] on any failure
ModelLists ==
  {<<>>} \cup {<<a>> : a \in ListedModels}
         \cup {m \in {<<a, b>> : a \in ListedModels, b \in ListedModels} : m[1] # m[2]}

\* m.toLowerCase().includes(p.toLowerCase())
IncludesName(m, p) ==
  \/ m = p
  \/ m = "models/gemini-1.5-flash" /\ p = "gemini-1.5-flash"
  \/ m = "models/gemini-2.5-flash" /\ p = "gemini-2.5-flash"

\* /gemini|text|generate|flash|chat/i.test(n) && !/embed/i.test(n)
GenericTextModel(n) == n # "models/embedding-001"

\* models.find(...): the first entry of the list that matches p, or a generic one for p = NoModel
FindModel(models, p) ==
  LET hits == {i \in DOMAIN models :
                 IF p = NoModel THEN GenericTextModel(models[i]) ELSE IncludesName(models[i], p)}
  IN IF hits = {} THEN NoModel
     ELSE models[CHOOSE i \in hits : \A j \in hits : i <= j]

\* the loop over preferredList and the fallback of resolveGeminiModel
RECURSIVE PickModel(_, _)
PickModel(models, preferredList) ==
  IF preferredList = <<>> THEN FindModel(models, NoModel)
  ELSE IF FindModel(models, Head(preferredList)) # NoModel THEN FindModel(models, Head(preferredList))
  ELSE PickModel(models, Tail(preferredList))

\* GEMINI_MODEL_CACHE after the refresh step of resolveGeminiModel(): it is
\* reloaded when never loaded or older than MODEL_CACHE_TTL (5 minutes, less
\* than one instant of the clock)
RefreshedCache(cache, listed) ==
  IF ~cache.loaded \/ now > cache.ts
  THEN [models |-> listed, loaded |-> TRUE, ts |-> now]
  ELSE cache

\* resolveGeminiModel(preferredList)
ResolveGeminiModel(cache, listed, preferredList) ==
  PickModel(RefreshedCache(cache, listed).models, preferredList)

\* how a generateContent request ends: the fetch is aborted by the 6 s timer,
\* fails otherwise, or is answered
FetchOutcomes == {"abort", "networkError", "404", "500", "okNoJson", "okNoText", "okEmptyText", "okText"}
NoFetch == "none"

\* candidates[0].content.parts[0].text of an answer; "" stands for a falsy text
TextOf(outcome) == IF outcome = "okText" THEN "generated text" ELSE ""

\* the state of the server process at start
GeminiStart(hasKey) ==
  [hasKey |-> hasKey,
   cache |-> [models |-> <<>>, loaded |-> FALSE, ts |-> 0],
   call |-> [model |-> NoModel, first |-> NoFetch, candidate |-> NoModel, retry |-> NoFetch,
             requests |-> <<>>, thrown |-> "", success |-> FALSE, text |-> "", message |-> ""]]

\* variant: the retry is made for any resolved model
ShouldRetryAnyCandidate(candidate, model) == candidate # NoModel

\* `candidate && candidate !== model`
ShouldRetry(candidate, model) == candidate # NoModel /\ candidate # model

\* the try block of callGeminiGenerateText: what it returns, or the error it
\* throws (thrown # "")
GeminiTryBody(model, first, candidate, retry) ==
  LET base == [model |-> model, first |-> first, candidate |-> NoModel, retry |-> NoFetch,
               requests |-> <<model>>, thrown |-> "", success |-> FALSE, text |-> "", message |-> ""]
  IN CASE first = "abort" -> [base EXCEPT !.thrown = "AbortError"]
       [] first = "networkError" -> [base EXCEPT !.thrown = "TypeError"]
       [] first = "500" -> [base EXCEPT !.message = "Gemini API error"]
       [] first = "404" ->
            IF ShouldRetry(candidate, model)
            THEN LET second == [base EXCEPT !.candidate = candidate, !.retry = retry,
                                            !.requests = <<model, candidate>>]
                 IN IF TextOf(retry) # ""
                    THEN [second EXCEPT !.success = TRUE, !.text = TextOf(retry)]
                    ELSE [second EXCEPT !.message = "Gemini API error"]
            ELSE [base EXCEPT !.candidate = candidate, !.message = "Gemini API error"]
       [] OTHER ->
            IF TextOf(first) = ""
            THEN [base EXCEPT !.message = "No text generated by Gemini API"]
            ELSE [base EXCEPT !.success = TRUE, !.text = TextOf(first)]

\* callGeminiGenerateText(prompt, model)
CallGeminiGenerateText(hasKey, model, first, candidate, retry) ==
  LET body == GeminiTryBody(model, first, candidate, retry) IN
  IF ~hasKey
  THEN [model |-> model, first |-> NoFetch, candidate |-> NoModel, retry |-> NoFetch,
        requests |-> <<>>, thrown |-> "", success |-> FALSE, text |-> "",
        message |-> "Gemini API key not configured"]
  ELSE IF body.thrown = "AbortError"
  THEN [body EXCEPT !.thrown = "", !.success = FALSE, !.message = "Gemini API request timed out"]
  ELSE IF body.thrown # ""
  THEN [body EXCEPT !.thrown = "", !.success = FALSE, !.message = "Gemini request failed"]
  ELSE body

\* ------------------------------------------------------------------ actions
TypeOK ==
  /\ DOMAIN users \subseteq Uids
  /\ DOMAIN medicalReports \subseteq ReportIds
  /\ consents \subseteq ConsentRecords
  /\ DOMAIN appointments \subseteq ApptIds
  /\ now \in Instants
  /\ dbReady \in BOOLEAN
  /\ plans \subseteq PlanCollections \X Uids
  /\ guard.url \in Urls /\ guard.redirectAfterLogin \in Urls \cup {NoUrl}

Init ==
  /\ users = EmptyFn
  /\ medicalReports = EmptyFn
  /\ consents \in {s \in SUBSET ConsentRecords : Cardinality(s) <= MaxConsents}
  /\ appointments = EmptyFn
  /\ now = 0
  /\ dbReady \in BOOLEAN
  /\ plans = {}
  /\ storage = {}
  /\ geminiSrv = GeminiStart(TRUE)
  /\ guard = FreshGuard("index.html", NoUrl)
  /\ resp = NoResp
  /\ prior = NoPrior

\* db.collection('medicalReports').doc(): an id not yet in the collection (the
\* ids are interchangeable; the first free one stands for any)
NewReportId ==
  ToString(CHOOSE i \in 1..MaxReports :
             /\ ToString(i) \notin DOMAIN medicalReports
             /\ \A j \in 1..(i - 1) : ToString(j) \in DOMAIN medicalReports)

\* inputs that cannot influence a request are not enumerated (a request whose
\* token is refused is answered before req.params.reportId is looked up)
Only(cond, S, dflt) == IF cond THEN S ELSE {dflt}

SignedUrlExpress ==
  \E token \in Tokens :
  \E reportId \in Only(token \in Uids, ReportIds, ToString(1)) :
    \E roleReadThrows \in Only(token \in Uids /\ reportId \in DOMAIN SrvReports, BOOLEAN, FALSE) :
      \E storageError \in Only(SignedUrlHandler("signedUrlExpress", token, reportId, roleReadThrows, FALSE).status = 200,
                               BOOLEAN, FALSE) :
        /\ resp' = SignedUrlHandler("signedUrlExpress", token, reportId, roleReadThrows, storageError)
        /\ prior' = PriorOf(resp')
        /\ UNCHANGED <<users, medicalReports, consents, appointments, now, dbReady, plans, storage, geminiSrv, guard>>

SignedUrlServerless ==
  \E token \in Tokens :
  \E reportId \in Only(token \in Uids, ReportIds, ToString(1)) :
    \E roleReadThrows \in Only(token \in Uids /\ reportId \in DOMAIN medicalReports, BOOLEAN, FALSE) :
      \E storageError \in Only(SignedUrlServerlessHandler(token, reportId, roleReadThrows, FALSE).status = 200,
                               BOOLEAN, FALSE) :
        /\ resp' = SignedUrlServerlessHandler(token, reportId, roleReadThrows, storageError)
        /\ prior' = PriorOf(resp')
        /\ UNCHANGED <<users, medicalReports, consents, appointments, now, dbReady, plans, storage, geminiSrv, guard>>

Analyze ==
  \E token \in Tokens :
  \E reportId \in Only(token \in Uids, ReportIds, ToString(1)) :
    \E userReadThrows \in Only(token \in Uids, BOOLEAN, FALSE) :
      \E pipeline \in Only(AnalyzeHandler(token, reportId, userReadThrows, "ok").status = 200,
                           AnalyzePipeline, "ok") :
        /\ resp' = AnalyzeHandler(token, reportId, userReadThrows, pipeline)
        /\ medicalReports' = AnalyzeWrite(resp')
        /\ UNCHANGED <<users, consents, appointments, now, dbReady, plans, storage, geminiSrv, guard>> /\ prior' = NoPrior

GetReports ==
  \E user \in Uids \cup {NoUser}, patientId \in Uids :
    \E dbThrows \in Only(user # NoUser, BOOLEAN, FALSE) :
      /\ resp' = GetPatientReportsForDoctor(user, patientId, dbThrows)
      /\ UNCHANGED <<users, medicalReports, consents, appointments, now, dbReady, plans, storage, geminiSrv, guard>> /\ prior' = NoPrior

\* the request validation of the upload handlers: the message of the 400
\* answer, "" for a request that passes; patientId = NoUser stands for a body
\* without patientId or without patientEmail
UploadValidationFileOnly(hasFile, patientId, patientMsg) ==
  IF ~hasFile THEN "No file uploaded" ELSE ""

UploadValidation(hasFile, patientId, patientMsg) ==
  IF ~hasFile THEN "No file uploaded"
  ELSE IF patientId = NoUser THEN patientMsg
  ELSE ""

\* the answer of an upload handler: no header was read; the file is one that
\* multer's fileFilter and size limit let through
UploadResp(hasFile, r) ==
  NoHeader(IF hasFile THEN WithFile(r, "application/pdf", FALSE) ELSE r)

\* variant: the metadata is written whatever the storage upload returned
MetadataWrittenAnyway(storageError) == TRUE

\* reportRef.set is reached only past the storage error check
MetadataWritten(storageError) == ~storageError

\* fileName of the object: `${patientId}/${safeAppointmentId}/${timestamp}_${originalname}`,
\* a name no earlier document refers to
StoragePath(patientId) == <<patientId, NewReportId>>

\* the collection after reportRef.set of a new document
WithReport(reports, id, patientId, path) ==
  [x \in DOMAIN reports \cup {id} |->
     IF x = id THEN [patientId |-> patientId, storagePath |-> path, analyzedBy |-> NoUser]
     ELSE reports[x]]

\* POST /api/reports/upload (Express): no header is read, so the request is
\* taken without one; the dummy db has no doc().id and its set() resolves
\* without storing
Upload ==
  \E hasFile \in BOOLEAN, patientId \in Uids \cup {NoUser} :
    LET free == ReportIds \ DOMAIN medicalReports
        invalid == UploadValidation(hasFile, patientId, "Patient ID and email are required")
    IN
    /\ free # {}
    /\ IF invalid # "" THEN
         /\ resp' = UploadResp(hasFile, Resp("upload", NoUser, NoReport, patientId, NoAppt, 400, FALSE, "NONE", {},
                         invalid, FALSE, FALSE))
         /\ UNCHANGED <<medicalReports, storage, geminiSrv>>
       ELSE \E storageError \in BOOLEAN :
         LET id == NewReportId
             path == StoragePath(patientId)
             written == MetadataWritten(storageError)
         IN
         /\ storage' = IF storageError THEN storage ELSE storage \cup {path}
         /\ medicalReports' = IF written /\ dbReady
                              THEN WithReport(medicalReports, id, patientId, path)
                              ELSE medicalReports
         /\ resp' = UploadResp(hasFile,
              IF storageError THEN
                Resp("upload", NoUser, NoReport, patientId, NoAppt, 500, FALSE, "NONE", {},
                     "Failed to upload medical report", FALSE, TRUE)
              ELSE
                Resp("upload", NoUser, IF dbReady THEN id ELSE NoReport, patientId, NoAppt,
                     200, TRUE, "NONE", {}, "Medical report uploaded successfully", FALSE, FALSE))
    /\ UNCHANGED <<users, consents, appointments, now, dbReady, plans, geminiSrv, guard>> /\ prior' = NoPrior

\* POST /api/reports/upload (serverless): as the Express handler, on the
\* Firestore handle of firebase-admin-init
UploadServerless ==
  \E hasFile \in BOOLEAN, patientId \in Uids \cup {NoUser} :
    LET free == ReportIds \ DOMAIN medicalReports
        invalid == UploadValidation(hasFile, patientId, "Patient ID and email required")
    IN
    /\ free # {}
    /\ IF invalid # "" THEN
         /\ resp' = UploadResp(hasFile, Resp("uploadServerless", NoUser, NoReport, patientId, NoAppt, 400, FALSE, "NONE", {},
                         invalid, FALSE, FALSE))
         /\ UNCHANGED <<medicalReports, storage, geminiSrv>>
       ELSE \E storageError \in BOOLEAN :
         LET id == NewReportId
             path == StoragePath(patientId)
             written == MetadataWritten(storageError)
         IN
         /\ storage' = IF storageError THEN storage ELSE storage \cup {path}
         /\ medicalReports' = IF written
                              THEN WithReport(medicalReports, id, patientId, path)
                              ELSE medicalReports
         /\ resp' = UploadResp(hasFile,
              IF storageError THEN
                Resp("uploadServerless", NoUser, NoReport, patientId, NoAppt, 500, FALSE, "NONE", {},
                     "File upload failed", FALSE, TRUE)
              ELSE
                Resp("uploadServerless", NoUser, id, patientId, NoAppt,
                     200, TRUE, "NONE", {}, "Medical report uploaded successfully", FALSE, FALSE))
    /\ UNCHANGED <<users, consents, appointments, now, dbReady, plans, geminiSrv, guard>> /\ prior' = NoPrior

GenerateExplanationExpress ==
  \E token \in Tokens, reportId \in ReportIds :
    /\ resp' = GenerateExplanationHandler("generateExplanationExpress", SrvReports, token, reportId)
    /\ UNCHANGED <<users, medicalReports, consents, appointments, now, dbReady, plans, storage, geminiSrv, guard>> /\ prior' = NoPrior

GenerateExplanationServerless ==
  \E token \in Tokens, reportId \in ReportIds :
    /\ resp' = GenerateExplanationHandler("generateExplanationServerless", medicalReports, token, reportId)
    /\ UNCHANGED <<users, medicalReports, consents, appointments, now, dbReady, plans, storage, geminiSrv, guard>> /\ prior' = NoPrior

DeleteReport ==
  \E user \in Uids \cup {NoUser}, reportId \in ReportIds, confirmed \in BOOLEAN :
    \E deleteThrows \in Only(DeleteReportOutcome(user, reportId, confirmed, FALSE) = "Report deleted successfully",
                             BOOLEAN, FALSE) :
      LET outcome == DeleteReportOutcome(user, reportId, confirmed, deleteThrows)
          deleted == outcome = "Report deleted successfully"
      IN /\ medicalReports' =
              IF deleted THEN [x \in DOMAIN medicalReports \ {reportId} |-> medicalReports[x]]
              ELSE medicalReports
         /\ resp' = Resp("deleteReport", user, reportId,
                         IF reportId \in DOMAIN medicalReports THEN medicalReports[reportId].patientId ELSE NoUser,
                         NoAppt, 0, deleted, "NONE", {}, outcome, FALSE, FALSE)
         /\ UNCHANGED <<users, consents, appointments, now, dbReady, plans, storage, geminiSrv, guard>> /\ prior' = NoPrior

\* the user opens a page of the app in the tab
OpenPage ==
  \E url \in Urls :
    /\ guard' = FreshGuard(url, guard.redirectAfterLogin)
    /\ resp' = GuardResp("openPage", NoUser, FALSE, guard')
    /\ UNCHANGED <<users, medicalReports, consents, appointments, now, dbReady, plans, storage, geminiSrv>> /\ prior' = NoPrior

\* the listener registered by AuthGuard.init() with auth.onAuthStateChanged
AuthStateChanged ==
  \E user \in Uids \cup {NoUser} :
    /\ guard.subscriptions > 0
    /\ guard' = AuthListener(guard, user)
    /\ resp' = GuardResp("authStateChanged", user,
                         guard'.url # guard.url \/ guard'.routingCalls # guard.routingCalls, guard')
    /\ UNCHANGED <<users, medicalReports, consents, appointments, now, dbReady, plans, storage, geminiSrv>> /\ prior' = NoPrior

\* handleRouting() after `await this.getCurrentUserRole()` on doctor-dashboard
RoleCheckDone ==
  \E profileThrows \in BOOLEAN :
    LET uid == guard.roleCheckFor
        role == GetCurrentUserRole(uid, profileThrows)
    IN /\ uid # NoUser
       /\ guard' = IF role # "doctor" THEN Navigate(guard, "index.html")
                   ELSE [guard EXCEPT !.roleCheckFor = NoUser]
       /\ resp' = [GuardResp("roleCheckDone", uid, TRUE, guard') EXCEPT !.roleReadThrew = profileThrows]
       /\ UNCHANGED <<users, medicalReports, consents, appointments, now, dbReady, plans, storage, geminiSrv>> /\ prior' = NoPrior

\* a script of the page runs `new AuthGuard()` once more
ConstructAuthGuard ==
  /\ guard' = AuthGuardConstructor(guard)
  /\ resp' = GuardResp("newAuthGuard", guard.currentUser, FALSE, guard')
  /\ UNCHANGED <<users, medicalReports, consents, appointments, now, dbReady, plans, storage, geminiSrv>> /\ prior' = NoPrior

\* a script of the page calls authGuard.requireAuth(cb); cb may be a callback
\* that throws
RequireAuthCall ==
  \E cb \in Callbacks \ guard.registered, throws \in BOOLEAN :
    /\ guard' = RequireAuth(guard, cb, throws)
    /\ resp' = [GuardResp("requireAuth", guard.currentUser, guard.authResolved /\ guard.currentUser = NoUser, guard')
                  EXCEPT !.decision = cb]
    /\ UNCHANGED <<users, medicalReports, consents, appointments, now, dbReady, plans, storage, geminiSrv>> /\ prior' = NoPrior

\* AuthGuard.handleLoginSuccess(), called by the login page
LoginSuccess ==
  /\ guard' = HandleLoginSuccess(guard)
  /\ resp' = [GuardResp("handleLoginSuccess", NoUser, FALSE, guard') EXCEPT
                !.decision = IF guard.redirectAfterLogin # NoUrl THEN "STORED" ELSE "DEFAULT"]
  /\ prior' = PriorOf(resp')
  /\ UNCHANGED <<users, medicalReports, consents, appointments, now, dbReady, plans, storage, geminiSrv>>

\* registerUser(email, password, username, age, gender, role) of auth.js;
\* createUserWithEmailAndPassword throws for an account that exists, and any
\* step may throw
RegisterUser ==
  \E uid \in Uids, throws \in BOOLEAN :
    \E role \in Only(~throws, Roles \cup {""}, "") :
      /\ throws \/ uid \notin DOMAIN users
      /\ users' = IF throws THEN users
                  ELSE [x \in DOMAIN users \cup {uid} |->
                          IF x = uid THEN [role |-> IF role = "" THEN "patient" ELSE role] ELSE users[x]]
      /\ resp' = Resp("registerUser", uid, NoReport, NoUser, NoAppt, 0, ~throws, "NONE", {},
                      IF throws THEN "err.message" ELSE "", FALSE, FALSE)
      /\ UNCHANGED <<medicalReports, consents, appointments, now, dbReady, plans, storage, geminiSrv, guard>> /\ prior' = NoPrior

\* ------------------------------------------------------------------ client API
\* how a request of the browser to the backend ends: fetch / XHR fails, the
\* body is not JSON, or the backend's handler answers
Transports == {"networkError", "badJson", "served"}

\* the { success, error } object of a function that ends in its catch block
\* or on an early return
ClientFail(op, user, msg) ==
  Resp(op, user, NoReport, NoUser, NoAppt, 0, FALSE, "NONE", {}, msg, FALSE, FALSE)

ClientOk(op, user) ==
  Resp(op, user, NoReport, NoUser, NoAppt, 0, TRUE, "NONE", {}, "", FALSE, FALSE)

\* loginUser(email, password) of auth.js
LoginUser ==
  \E uid \in Uids, throws \in BOOLEAN :
    /\ resp' = IF throws THEN ClientFail("loginUser", uid, "err.message") ELSE ClientOk("loginUser", uid)
    /\ UNCHANGED <<users, medicalReports, consents, appointments, now, dbReady, plans, storage, geminiSrv, guard>> /\ prior' = NoPrior

\* logoutUser() of auth.js
LogoutUser ==
  \E user \in Uids \cup {NoUser}, throws \in BOOLEAN :
    /\ resp' = IF throws THEN ClientFail("logoutUser", user, "err.message") ELSE ClientOk("logoutUser", user)
    /\ UNCHANGED <<users, medicalReports, consents, appointments, now, dbReady, plans, storage, geminiSrv, guard>> /\ prior' = NoPrior

\* getUserProfile(uid) of auth.js, run with auth.currentUser = user;
\* uid = NoUser stands for the omitted argument
GetUserProfile ==
  \E user \in Uids \cup {NoUser}, uid \in Uids \cup {NoUser}, throws \in BOOLEAN :
    LET userId == IF uid # NoUser THEN uid ELSE user IN
    /\ resp' = IF userId = NoUser THEN ClientFail("getUserProfile", user, "No user ID provided")
               ELSE IF throws THEN ClientFail("getUserProfile", user, "err.message")
               ELSE IF GetUserProfileOk(userId)
                 THEN [ClientOk("getUserProfile", user) EXCEPT !.pid = userId, !.data = {<<"profile", userId, 0>>}]
               ELSE ClientFail("getUserProfile", user, "User profile not found")
    /\ UNCHANGED <<users, medicalReports, consents, appointments, now, dbReady, plans, storage, geminiSrv, guard>> /\ prior' = NoPrior

\* saveHealthProfile(profileData) of profile.js: set(payload, { merge: true })
\* creates users/{uid} without a role when the document is missing
SaveHealthProfile ==
  \E user \in Uids \cup {NoUser}, valid \in BOOLEAN, throws \in BOOLEAN :
    /\ resp' = IF user = NoUser THEN ClientFail("saveHealthProfile", user, "No authenticated user")
               ELSE IF ~valid THEN ClientFail("saveHealthProfile", user, "Validation failed")
               ELSE IF throws THEN ClientFail("saveHealthProfile", user, "err.message")
               ELSE ClientOk("saveHealthProfile", user)
    /\ users' = IF resp'.success /\ user \notin DOMAIN users
                THEN [x \in DOMAIN users \cup {user} |-> IF x = user THEN [role |-> "null"] ELSE users[x]]
                ELSE users
    /\ UNCHANGED <<medicalReports, consents, appointments, now, dbReady, plans, storage, geminiSrv, guard>> /\ prior' = NoPrior

\* getHealthProfile() of profile.js
GetHealthProfile ==
  \E user \in Uids \cup {NoUser}, throws \in BOOLEAN :
    /\ resp' = IF user = NoUser THEN ClientFail("getHealthProfile", user, "No authenticated user")
               ELSE IF throws THEN ClientFail("getHealthProfile", user, "err.message")
               ELSE IF user \notin DOMAIN users THEN ClientFail("getHealthProfile", user, "Profile not found")
               ELSE [ClientOk("getHealthProfile", user) EXCEPT !.pid = user, !.data = {<<"profile", user, 0>>}]
    /\ UNCHANGED <<users, medicalReports, consents, appointments, now, dbReady, plans, storage, geminiSrv, guard>> /\ prior' = NoPrior

\* getMedicalReports() of reports.js
GetMedicalReports ==
  \E user \in Uids \cup {NoUser}, throws \in BOOLEAN :
    /\ resp' = IF user = NoUser THEN ClientFail("getMedicalReports", user, "No authenticated user.")
               ELSE IF throws THEN ClientFail("getMedicalReports", user, "err.message")
               ELSE [ClientOk("getMedicalReports", user) EXCEPT
                       !.pid = user,
                       !.data = {ReportItem(rid, medicalReports[rid]) :
                                   rid \in {x \in DOMAIN medicalReports : medicalReports[x].patientId = user}}]
    /\ UNCHANGED <<users, medicalReports, consents, appointments, now, dbReady, plans, storage, geminiSrv, guard>> /\ prior' = NoPrior

\* file.type values of the File handed to uploadMedicalReport
validTypes == {"application/pdf", "image/jpeg", "image/png", "image/jpg"}
FileTypes == {"application/pdf", "image/png", "text/plain"}

\* the early returns of uploadMedicalReport: the error of the returned
\* object, "" when the upload goes on; tooLarge: file.size > 10 * 1024 * 1024
UploadMedicalReportCheck(user, fileType, tooLarge) ==
  IF user = NoUser THEN "No authenticated user."
  ELSE IF fileType \notin validTypes THEN "Invalid file type. Only PDF and images are supported."
  ELSE IF tooLarge THEN "File exceeds 10MB limit."
  ELSE ""

\* uploadMedicalReport(file, ...) of reports.js, run with auth.currentUser =
\* user, together with the Express upload handler it posts to. The promise
\* built around the XHR is returned without await, so its rejections pass the
\* function's catch block.
UploadMedicalReport ==
  \E user \in Uids \cup {NoUser} :
  \E fileType \in Only(user # NoUser, FileTypes, "application/pdf") :
  \E tooLarge \in Only(user # NoUser /\ fileType \in validTypes, BOOLEAN, FALSE) :
    LET op == "uploadMedicalReport"
        free == ReportIds \ DOMAIN medicalReports
        refused == UploadMedicalReportCheck(user, fileType, tooLarge)
    IN
    /\ free # {}
    /\ IF refused # "" THEN
         /\ resp' = WithFile(ClientFail(op, user, refused), fileType, tooLarge)
         /\ UNCHANGED <<medicalReports, storage, geminiSrv>>
       ELSE \E userDocThrows \in BOOLEAN :
            \E xhr \in Only(~userDocThrows, Transports, "served") :
            \E storageError \in Only(~userDocThrows /\ xhr = "served", BOOLEAN, FALSE) :
         LET id == NewReportId
             path == StoragePath(user)
             served == ~userDocThrows /\ xhr = "served"
             written == served /\ MetadataWritten(storageError)
         IN
         /\ storage' = IF served /\ ~storageError THEN storage \cup {path} ELSE storage
         /\ medicalReports' = IF written /\ dbReady
                              THEN WithReport(medicalReports, id, user, path)
                              ELSE medicalReports
         /\ resp' = WithFile(
              IF userDocThrows THEN ClientFail(op, user, "error.message")
              ELSE IF xhr = "networkError" THEN Sent(Rejects(ClientFail(op, user, "Network error during upload")))
              ELSE IF xhr = "badJson" THEN Sent(Rejects(ClientFail(op, user, "Invalid response from server")))
              ELSE IF storageError
                THEN Sent(Rejects(ClientFail(op, user, "Failed to upload medical report")))
              ELSE Sent([ClientOk(op, user) EXCEPT !.rid = IF dbReady THEN id ELSE NoReport, !.pid = user]),
              fileType, tooLarge)
    /\ UNCHANGED <<users, consents, appointments, now, dbReady, plans, geminiSrv, guard>> /\ prior' = NoPrior

\* how the browser's request to the Gemini API ends
GeminiOutcomes == {"fetchThrows", "notOk", "badJson", "noText", "text"}

\* variant: no fallback to the sample plan
PlanOfNoFallback(gemini) == IF gemini = "text" THEN "gemini" ELSE ""

\* the plan text: the generated text, or getSampleDietPlan / getSampleExercisePlan
\* when the request failed, was not OK or carried no text
PlanOf(gemini) == IF gemini = "text" THEN "gemini" ELSE "sample"

\* generateDietPlan / generateExercisePlan: the resolved value
GeneratePlanResult(op, user, profileReadThrows, gemini, saveThrows) ==
  IF op = "generateExercisePlan" /\ user = NoUser THEN ClientFail(op, user, "User not authenticated")
  ELSE IF user = NoUser \/ profileReadThrows \/ user \notin DOMAIN users THEN
    [ClientFail(op, user, "Health profile not found") EXCEPT !.roleReadThrew = profileReadThrows /\ user # NoUser]
  ELSE
    WithAiCall([ClientOk(op, user) EXCEPT !.pid = user, !.msg = gemini, !.storageFailed = saveThrows,
                                          !.data = IF PlanOf(gemini) = "" THEN {}
                                                   ELSE {<<"plan", user, PlanOf(gemini)>>}])

\* the document added to dietPlans / exercisePlans, unless add() throws
PlanSaved(coll, r) ==
  IF r.success /\ ~r.storageFailed THEN plans \cup {<<coll, r.uid>>} ELSE plans

\* generateDietPlan(dietType, preferences) of dashboard.js
GenerateDietPlan ==
  \E user \in Uids \cup {NoUser} :
    \E profileReadThrows \in Only(user # NoUser, BOOLEAN, FALSE) :
      \E gemini \in Only(GeneratePlanResult("generateDietPlan", user, profileReadThrows, "text", FALSE).success,
                          GeminiOutcomes, "text"),
         saveThrows \in Only(GeneratePlanResult("generateDietPlan", user, profileReadThrows, "text", FALSE).success,
                              BOOLEAN, FALSE) :
        /\ resp' = GeneratePlanResult("generateDietPlan", user, profileReadThrows, gemini, saveThrows)
        /\ plans' = PlanSaved("dietPlans", resp')
        /\ UNCHANGED <<users, medicalReports, consents, appointments, now, dbReady, storage, geminiSrv, guard>> /\ prior' = NoPrior

\* generateExercisePlan(condition, customDisease) of exercise.js
GenerateExercisePlan ==
  \E user \in Uids \cup {NoUser} :
    \E profileReadThrows \in Only(user # NoUser, BOOLEAN, FALSE) :
      \E gemini \in Only(GeneratePlanResult("generateExercisePlan", user, profileReadThrows, "text", FALSE).success,
                          GeminiOutcomes, "text"),
         saveThrows \in Only(GeneratePlanResult("generateExercisePlan", user, profileReadThrows, "text", FALSE).success,
                              BOOLEAN, FALSE) :
        /\ resp' = GeneratePlanResult("generateExercisePlan", user, profileReadThrows, gemini, saveThrows)
        /\ plans' = PlanSaved("exercisePlans", resp')
        /\ UNCHANGED <<users, medicalReports, consents, appointments, now, dbReady, storage, geminiSrv, guard>> /\ prior' = NoPrior

\* what a fetch-based client function makes of the backend's answer r
ClientOfResponse(op, user, transport, r) ==
  IF user = NoUser THEN ClientFail(op, user, "No authenticated user.")
  ELSE IF transport # "served" THEN Sent(ClientFail(op, user, "error.message"))
  ELSE IF r.status # 200 THEN Sent([ClientFail(op, user, r.msg) EXCEPT !.rid = r.rid, !.pid = r.pid])
  ELSE Sent([ClientOk(op, user) EXCEPT !.rid = r.rid, !.pid = r.pid, !.data = r.data])

\* getReportSignedUrl(reportId) of reports.js, together with the Express
\* handler it fetches from; user.getIdToken() yields the user's own token
GetReportSignedUrl ==
  \E user \in Uids \cup {NoUser}, reportId \in ReportIds, transport \in Transports :
    \E roleReadThrows \in Only(user # NoUser /\ transport = "served", BOOLEAN, FALSE),
       storageError \in Only(user # NoUser /\ transport = "served", BOOLEAN, FALSE) :
      /\ resp' = ClientOfResponse("getReportSignedUrl", user, transport,
                     SignedUrlHandler("signedUrlExpress", user, reportId, roleReadThrows, storageError))
      /\ UNCHANGED <<users, medicalReports, consents, appointments, now, dbReady, plans, storage, geminiSrv, guard>> /\ prior' = NoPrior

\* analyzeMedicalReportAI(reportId) of reports.js, together with the analyze
\* handler it posts to
AnalyzeMedicalReportAI ==
  \E user \in Uids \cup {NoUser}, reportId \in ReportIds, transport \in Transports :
    \E pipeline \in Only(user # NoUser /\ transport = "served", AnalyzePipeline, "ok") :
      LET served == user # NoUser /\ transport = "served"
          r == AnalyzeHandler(user, reportId, FALSE, pipeline)
      IN /\ resp' = ClientOfResponse("analyzeMedicalReportAI", user, transport, r)
         /\ medicalReports' = IF served THEN AnalyzeWrite(r) ELSE medicalReports
         /\ UNCHANGED <<users, consents, appointments, now, dbReady, plans, storage, geminiSrv, guard>> /\ prior' = NoPrior

\* a call of callGeminiGenerateText by a handler of server.js
CallGemini ==
  \E model \in GeminiModels, first \in Only(geminiSrv.hasKey, FetchOutcomes, NoFetch) :
  \E listed \in Only(first = "404" /\ (~geminiSrv.cache.loaded \/ now > geminiSrv.cache.ts), ModelLists, <<>>) :
    LET resolving == first = "404"
        preferredList == <<model, "gemini-2.5-flash", "gemini-1.5-flash">>
        candidate == IF resolving THEN ResolveGeminiModel(geminiSrv.cache, listed, preferredList) ELSE NoModel
    IN \E retry \in Only(resolving /\ ShouldRetry(candidate, model), FetchOutcomes, NoFetch) :
         LET result == CallGeminiGenerateText(geminiSrv.hasKey, model, first, candidate, retry) IN
         /\ geminiSrv' = [geminiSrv EXCEPT !.call = result,
                                     !.cache = IF resolving THEN RefreshedCache(@, listed) ELSE @]
         /\ resp' = Resp("callGeminiGenerateText", NoUser, NoReport, NoUser, NoAppt, 0, result.success, "NONE", {},
                         result.message, FALSE, FALSE)
         /\ UNCHANGED <<users, medicalReports, consents, appointments, now, dbReady, plans, storage, guard>>
         /\ prior' = NoPrior

\* passage of time
Tick ==
  /\ now < MaxTime
  /\ now' = now + 1
  /\ UNCHANGED <<users, medicalReports, consents, appointments, dbReady, plans, storage, geminiSrv, guard, resp, prior>>

\* getUserProfile(uid) of auth.js as called with `uid || auth.currentUser?.uid`:
\* the profile that is looked up
ProfileLookedUp(uid, currentUser) == IF uid = NoDoctor THEN currentUser ELSE uid

\* the appointments collection after add(appointmentData)
WithAppointment(id, user, doctorId, dateTime, tz) ==
  [x \in DOMAIN appointments \cup {id} |->
     IF x = id THEN [patientId |-> user, doctorId |-> doctorId,
                     date |-> ApptDate(dateTime, tz), time |-> ApptTime(dateTime, tz),
                     status |-> "pending", consentGranted |-> FALSE,
                     consentRevokedAt |-> FALSE, doctorNotes |-> ""]
     ELSE appointments[x]]

\* requestAppointment(doctorId, dateTime, reason) of reports.js (real
\* implementation); doctorId is a uid or the empty value of the select
RequestAppointment ==
  \E user \in Uids \cup {NoUser}, doctorId \in Uids \cup {NoDoctor} :
    LET doctorProfile == ProfileLookedUp(doctorId, user) IN
    IF user = NoUser \/ ~GetUserProfileOk(user) \/ ~GetUserProfileOk(doctorProfile) THEN
      /\ resp' = ForDoctor(Resp("requestAppointment", user, NoReport, NoUser, NoAppt, 0, FALSE, "NONE", {},
                      IF user = NoUser THEN "No authenticated user."
                      ELSE IF ~GetUserProfileOk(user) THEN "Patient profile not found."
                      ELSE "Doctor not found.", FALSE, FALSE), doctorId)
      /\ UNCHANGED <<users, medicalReports, consents, appointments, now, dbReady, plans, storage, geminiSrv, guard>> /\ prior' = NoPrior
    ELSE \E dateTime \in Instants, tz \in TzOffsets, id \in ApptIds \ DOMAIN appointments :
      /\ appointments' = WithAppointment(id, user, doctorId, dateTime, tz)
      /\ resp' = ForDoctor(Resp("requestAppointment", user, NoReport, user, id, 0, TRUE, "NONE", {}, "", FALSE, FALSE),
                           doctorId)
      /\ UNCHANGED <<users, medicalReports, consents, now, dbReady, plans, storage, geminiSrv, guard>> /\ prior' = NoPrior

\* window.requestAppointment before reports.js has installed the real
\* implementation: the fast path of the stub. The patient's profile is read
\* best-effort; users.doc('') throws, as may the read of the doctor's document
RequestAppointmentFastPath ==
  \E user \in Uids \cup {NoUser}, doctorId \in Uids \cup {NoDoctor} :
  \E doctorReadThrows \in Only(user # NoUser /\ doctorId # NoDoctor, BOOLEAN, FALSE) :
    LET op == "requestAppointmentFastPath" IN
    IF user = NoUser \/ doctorId = NoDoctor \/ doctorReadThrows \/ doctorId \notin DOMAIN users THEN
      /\ resp' = ForDoctor(Resp(op, user, NoReport, NoUser, NoAppt, 0, FALSE, "NONE", {},
                      IF user = NoUser THEN "No authenticated user."
                      ELSE IF doctorId = NoDoctor \/ doctorReadThrows THEN "Doctor lookup failed"
                      ELSE "Doctor not found.", FALSE, FALSE), doctorId)
      /\ UNCHANGED <<users, medicalReports, consents, appointments, now, dbReady, plans, storage, geminiSrv, guard>> /\ prior' = NoPrior
    ELSE \E dateTime \in Instants, tz \in TzOffsets, id \in ApptIds \ DOMAIN appointments :
      /\ appointments' = WithAppointment(id, user, doctorId, dateTime, tz)
      /\ resp' = ForDoctor(Resp(op, user, NoReport, user, id, 0, TRUE, "NONE", {}, "", FALSE, FALSE), doctorId)
      /\ UNCHANGED <<users, medicalReports, consents, now, dbReady, plans, storage, geminiSrv, guard>> /\ prior' = NoPrior

\* updateAppointmentStatus(appointmentId, status) of doctor-dashboard.js, run
\* with auth.currentUser = user (which it does not read);
\* DocumentReference.update rejects when the document does not exist
UpdateAppointmentStatus ==
  \E user \in Uids \cup {NoUser}, appointmentId \in ApptIds, status \in ApptStatuses :
    /\ IF appointmentId \in DOMAIN appointments THEN
         /\ appointments' = [appointments EXCEPT ![appointmentId].status = status]
         /\ resp' = Resp("updateAppointmentStatus", user, NoReport, NoUser, appointmentId, 0, TRUE,
                         "NONE", {}, status, FALSE, FALSE)
       ELSE
         /\ resp' = Resp("updateAppointmentStatus", user, NoReport, NoUser, appointmentId, 0, FALSE,
                         "NONE", {}, "Error updating appointment status.", FALSE, FALSE)
         /\ UNCHANGED appointments
    /\ UNCHANGED <<users, medicalReports, consents, now, dbReady, plans, storage, geminiSrv, guard>> /\ prior' = NoPrior

\* grantConsent(appointmentId) of reports.js, run with auth.currentUser = user
GrantConsent ==
  \E user \in Uids \cup {NoUser}, appointmentId \in ApptIds :
    /\ IF appointmentId \in DOMAIN appointments THEN
         /\ appointments' = [appointments EXCEPT ![appointmentId].consentGranted = TRUE]
         /\ resp' = Resp("grantConsent", user, NoReport, NoUser, appointmentId, 0, TRUE,
                         "NONE", {}, "Consent granted successfully!", FALSE, FALSE)
       ELSE
         /\ resp' = Resp("grantConsent", user, NoReport, NoUser, appointmentId, 0, FALSE,
                         "NONE", {}, "Error granting consent.", FALSE, FALSE)
         /\ UNCHANGED appointments
    /\ UNCHANGED <<users, medicalReports, consents, now, dbReady, plans, storage, geminiSrv, guard>> /\ prior' = NoPrior

\* revokeConsent(appointmentId) of reports.js, run with auth.currentUser = user
RevokeConsent ==
  \E user \in Uids \cup {NoUser}, appointmentId \in ApptIds :
    /\ IF appointmentId \in DOMAIN appointments THEN
         /\ appointments' = [appointments EXCEPT ![appointmentId].consentGranted = FALSE,
                                             ![appointmentId].consentRevokedAt = TRUE]
         /\ resp' = Resp("revokeConsent", user, NoReport, NoUser, appointmentId, 0, TRUE,
                         "NONE", {}, "Consent revoked successfully!", FALSE, FALSE)
       ELSE
         /\ resp' = Resp("revokeConsent", user, NoReport, NoUser, appointmentId, 0, FALSE,
                         "NONE", {}, "Error revoking consent.", FALSE, FALSE)
         /\ UNCHANGED appointments
    /\ UNCHANGED <<users, medicalReports, consents, now, dbReady, plans, storage, geminiSrv, guard>> /\ prior' = NoPrior

\* saveDoctorNotes(appointmentId) of doctor-dashboard.js, run with
\* auth.currentUser = user; notes is the value of #doctor-notes
SaveDoctorNotes ==
  \E user \in Uids \cup {NoUser}, appointmentId \in ApptIds, notes \in DoctorNotes :
    /\ IF appointmentId \in DOMAIN appointments THEN
         /\ appointments' = [appointments EXCEPT ![appointmentId].doctorNotes = notes]
         /\ resp' = Resp("saveDoctorNotes", user, NoReport, NoUser, appointmentId, 0, TRUE,
                         "NONE", {}, "Notes saved successfully!", FALSE, FALSE)
       ELSE
         /\ resp' = Resp("saveDoctorNotes", user, NoReport, NoUser, appointmentId, 0, FALSE,
                         "NONE", {}, "Error saving notes.", FALSE, FALSE)
         /\ UNCHANGED appointments
    /\ UNCHANGED <<users, medicalReports, consents, now, dbReady, plans, storage, geminiSrv, guard>> /\ prior' = NoPrior

ViewPatientDetails ==
  \E user \in Uids \cup {NoUser}, patientId \in Uids, appointmentId \in ApptIds, tz \in TzOffsets :
    \E reportsThrow \in Only(ViewPatientDetailsResult(user, patientId, appointmentId, tz, FALSE, FALSE).success
                             /\ user # NoUser, BOOLEAN, FALSE) :
      \E readingsThrow \in Only(ViewPatientDetailsResult(user, patientId, appointmentId, tz, FALSE, FALSE).success,
                                BOOLEAN, FALSE) :
        /\ resp' = ViewPatientDetailsResult(user, patientId, appointmentId, tz, reportsThrow, readingsThrow)
        /\ UNCHANGED <<users, medicalReports, consents, appointments, now, dbReady, plans, storage, geminiSrv, guard>> /\ prior' = NoPrior

Next ==
  \/ SignedUrlExpress
  \/ SignedUrlServerless
  \/ Analyze
  \/ GetReports
  \/ Upload
  \/ RegisterUser

Spec == Init /\ [][Next]_vars

\* the signed-url endpoint over time: the Express handler, the writers of the
\* collections it reads, and the clock
NextClock ==
  \/ SignedUrlExpress
  \/ Upload
  \/ RegisterUser
  \/ Tick

\* without Firebase credentials the Express handler reads the dummy db, whose
\* collections are empty: the consents are then read by no step
InitClock == Init /\ (dbReady \/ consents = {})

SpecClock == InitClock /\ [][NextClock]_vars

\* every report endpoint of both revisions
NextEndpoints ==
  \/ Upload
  \/ UploadServerless
  \/ SignedUrlExpress
  \/ SignedUrlServerless
  \/ Analyze
  \/ GenerateExplanationExpress
  \/ GenerateExplanationServerless
  \/ RegisterUser

SpecEndpoints == Init /\ [][NextEndpoints]_vars

\* the client API of auth.js, profile.js and reports.js
NextClient ==
  \/ RegisterUser
  \/ LoginUser
  \/ LogoutUser
  \/ GetUserProfile
  \/ SaveHealthProfile
  \/ GetHealthProfile
  \/ UploadMedicalReport
  \/ GetMedicalReports
  \/ GetReportSignedUrl
  \/ AnalyzeMedicalReportAI
  \/ GetReports

SpecClient == Init /\ [][NextClient]_vars

\* AI plans: the generators and the writers of the profile they read, on a
\* deployment without consent records
InitPlans == Init /\ consents = {} /\ dbReady

NextPlans ==
  \/ RegisterUser
  \/ SaveHealthProfile
  \/ GenerateDietPlan
  \/ GenerateExercisePlan

SpecPlans == InitPlans /\ [][NextPlans]_vars

\* the AuthGuard of a browser tab: page loads, auth events, the login page's
\* handleLoginSuccess, and registration (the profiles the role check reads)
InitGuard == Init /\ consents = {} /\ dbReady

NextGuard ==
  \/ OpenPage
  \/ AuthStateChanged
  \/ RoleCheckDone
  \/ LoginSuccess
  \/ RegisterUser

SpecGuard == InitGuard /\ [][NextGuard]_vars

\* the AuthGuard instance of a page, its listener and the requireAuth queue
NextListeners ==
  \/ OpenPage
  \/ ConstructAuthGuard
  \/ AuthStateChanged
  \/ RoleCheckDone
  \/ RequireAuthCall

SpecListeners == InitGuard /\ [][NextListeners]_vars

\* the Gemini helper of server.js, with or without an API key in the environment
InitGemini ==
  /\ users = EmptyFn
  /\ medicalReports = EmptyFn
  /\ consents = {}
  /\ appointments = EmptyFn
  /\ now = 0
  /\ dbReady = TRUE
  /\ plans = {}
  /\ storage = {}
  /\ geminiSrv \in {GeminiStart(k) : k \in BOOLEAN}
  /\ guard = FreshGuard("index.html", NoUrl)
  /\ resp = NoResp
  /\ prior = NoPrior

NextGemini ==
  \/ CallGemini
  \/ Tick

SpecGemini == InitGemini /\ [][NextGemini]_vars

\* the medicalReports collection: created on upload, deleted by deleteReport
NextReports ==
  \/ Upload
  \/ UploadServerless
  \/ DeleteReport

SpecReports == Init /\ [][NextReports]_vars

\* the three ways a report is uploaded, and the owner's delete
NextUpload ==
  \/ Upload
  \/ UploadServerless
  \/ UploadMedicalReport
  \/ DeleteReport

\* no upload or delete reads the consents collection
InitUpload == Init /\ consents = {}

SpecUpload == InitUpload /\ [][NextUpload]_vars

\* the endpoints that take a report to the AI service, and the writers of the
\* collections they read
NextAnalyze ==
  \/ Analyze
  \/ GenerateExplanationExpress
  \/ GenerateExplanationServerless
  \/ Upload
  \/ RegisterUser

\* without Firebase credentials the Express handlers read the dummy db, whose
\* collections are empty, and no report exists for the serverless handler to
\* reach its consent query: the consents are then read by no step
InitAnalyze == Init /\ (dbReady \/ consents = {})

SpecAnalyze == InitAnalyze /\ [][NextAnalyze]_vars

\* the appointment / consent flow on a deployment with a registered patient u1
\* who uploaded one report, a registered doctor u2, and the backend connected
\* to Firestore
InitConsent ==
  /\ users = [u \in Uids |-> [role |-> IF u = "u1" THEN "patient" ELSE "doctor"]]
  /\ medicalReports = [r \in {"1"} |-> [patientId |-> "u1", storagePath |-> <<"u1", r>>, analyzedBy |-> NoUser]]
  /\ consents \in {s \in SUBSET {c \in ConsentRecords : c.patientId = "u1" /\ c.doctorId = "u2"} :
                     Cardinality(s) <= MaxConsents}
  /\ appointments = EmptyFn
  /\ now = 0
  /\ dbReady = TRUE
  /\ plans = {}
  /\ storage = {<<"u1", "1">>}
  /\ geminiSrv = GeminiStart(TRUE)
  /\ guard = FreshGuard("index.html", NoUrl)
  /\ resp = NoResp
  /\ prior = NoPrior

NextConsent ==
  \/ RequestAppointment
  \/ UpdateAppointmentStatus
  \/ GrantConsent
  \/ RevokeConsent
  \/ ViewPatientDetails
  \/ GetReports
  \/ SignedUrlExpress
  \/ Tick

SpecConsent == InitConsent /\ [][NextConsent]_vars

\* the writers of the appointments collection
NextAppointments ==
  \/ RequestAppointment
  \/ RequestAppointmentFastPath
  \/ UpdateAppointmentStatus
  \/ SaveDoctorNotes
  \/ GrantConsent
  \/ RevokeConsent

SpecAppointments == InitConsent /\ [][NextAppointments]_vars

\* ------------------------------------------------------------------ properties
\* the response in resp comes from an endpoint that reached its access rules for
\* a verified requester and an existing report / a given patient
AccessOps == SignedUrlOps \cup {"analyze", "getPatientReportsForDoctor"}
ServerOps == SignedUrlOps \cup {"analyze"}
Reached(ops) == resp.op \in ops /\ resp.uid \in Uids /\ resp.pid \in Uids
StoredRole(uid) == IF uid \in DOMAIN users THEN users[uid].role ELSE "null"
HasApprovedConsent(patientId, doctorId) ==
  \E c \in consents : c.patientId = patientId /\ c.doctorId = doctorId /\ c.status = "approved"
Denied == ~resp.success /\ resp.data = {}

\* C1: on the signed-url endpoint (both revisions) a requester whose uid equals
\* the report's patientId is always let through, whatever the stored role and
\* the consents collection: the decision is ALLOW and, unless storage fails,
\* the answer is 200 with the signed URL.
C1_OwnerAlwaysGranted ==
  (Reached(SignedUrlOps) /\ resp.uid = resp.pid) =>
     /\ resp.decision = "ALLOW"
     /\ (~resp.storageFailed => resp.status = 200 /\ resp.data # {})

\* C2: on the signed-url endpoint, the analyze endpoint and
\* getPatientReportsForDoctor, a requester other than the patient with no
\* approved consent record (patientId, doctorId = requester) is denied: 403 from
\* the server, success:false from the client function, and nothing is returned.
C2_NoConsentDenied ==
  (Reached(AccessOps) /\ resp.uid # resp.pid /\ ~HasApprovedConsent(resp.pid, resp.uid)) =>
     /\ Denied
     /\ (resp.op \in ServerOps => resp.status = 403)

C2_Witness ==
  /\ Reached(AccessOps) /\ resp.uid # resp.pid
  /\ StoredRole(resp.uid) = "doctor" /\ ~resp.roleReadThrew
  /\ \E c \in consents : c.patientId = resp.pid /\ c.doctorId = resp.uid /\ c.status # "approved"
  /\ Denied

\* C3: on the same three paths a requester other than the patient whose stored
\* role is not 'doctor' (or who has no user document) is denied, even when an
\* approved consent record names the requester as doctor.
C3_NonDoctorDenied ==
  (Reached(AccessOps) /\ resp.uid # resp.pid /\ StoredRole(resp.uid) # "doctor") =>
     /\ Denied
     /\ (resp.op \in ServerOps => resp.status = 403)

C3_Witness ==
  /\ Reached(AccessOps) /\ resp.uid # resp.pid
  /\ StoredRole(resp.uid) = "patient"
  /\ HasApprovedConsent(resp.pid, resp.uid)
  /\ Denied

C6_RoleLookupFailClosed ==
  (Reached(SignedUrlOps) /\ resp.uid # resp.pid
     /\ (resp.roleReadThrew \/ resp.uid \notin DOMAIN users)) =>
     resp.status = 403 /\ Denied

C6_Witness ==
  /\ Reached(SignedUrlOps) /\ resp.uid # resp.pid /\ resp.roleReadThrew
  /\ StoredRole(resp.uid) = "doctor" /\ HasApprovedConsent(resp.pid, resp.uid)
  /\ resp.status = 403

ApptsOf(patientId, doctorId) ==
  {a \in DOMAIN appointments :
     appointments[a].patientId = patientId /\ appointments[a].doctorId = doctorId}

\* the appointment's stored date and time lie before instant t in every time zone
ExpiredAt(appointment, t) == \A tz \in TzOffsets : AppointmentDateTime(appointment, tz) < t
\* ... lie at or after instant t in every time zone
ActiveAt(appointment, t) == \A tz \in TzOffsets : AppointmentDateTime(appointment, tz) >= t

PatientDataOps == AccessOps \cup {"viewPatientDetails"}

\* C5: when viewPatientDetails runs for a doctor who has no approved consent
\* record for the patient (getPatientReportsForDoctor answers success:false),
\* nothing of the patient - profile, readings, reports - is rendered.
C5_NoPartialDisclosure ==
  (resp.op = "viewPatientDetails" /\ resp.uid \in Uids /\ resp.uid # resp.pid
     /\ ~HasApprovedConsent(resp.pid, resp.uid)) =>
     resp.data = {}

\* C8: once the current time is later than an appointment's date and time, its
\* doctor obtains none of the patient's data: not through viewPatientDetails on
\* that appointment, whatever its status, and - when every appointment of the
\* pair has expired - not through getPatientReportsForDoctor, the signed-url
\* endpoint or the analyze endpoint.
C8_ExpiredAppointmentNoAccess ==
  /\ (resp.op = "viewPatientDetails" /\ resp.aid \in DOMAIN appointments
        /\ ExpiredAt(appointments[resp.aid], resp.at)) => resp.data = {}
  /\ (Reached(AccessOps) /\ resp.uid # resp.pid
        /\ ApptsOf(resp.pid, resp.uid) # {}
        /\ \A a \in ApptsOf(resp.pid, resp.uid) : ExpiredAt(appointments[a], resp.at)) => resp.data = {}

C10_GrantEffective ==
  (resp.op \in {"getPatientReportsForDoctor", "signedUrlExpress"}
     /\ resp.uid \in Uids /\ resp.pid \in Uids /\ resp.uid # resp.pid
     /\ consents = {} /\ StoredRole(resp.uid) = "doctor"
     /\ ~resp.roleReadThrew /\ ~resp.storageFailed
     /\ (\E a \in ApptsOf(resp.pid, resp.uid) :
           /\ appointments[a].status = "accepted" /\ appointments[a].consentGranted
           /\ ActiveAt(appointments[a], resp.at))) =>
     resp.success

\* C12: viewPatientDetails(patientId, appointmentId) run by a user who is not
\* the appointment's doctor, or for a patientId that is not the appointment's
\* patient, renders no profile and no health readings of patientId, whatever
\* the appointment's consentGranted flag.
C12_AppointmentOfCallerAndPatient ==
  (resp.op = "viewPatientDetails" /\ resp.aid \in DOMAIN appointments
     /\ (appointments[resp.aid].doctorId # resp.uid \/ appointments[resp.aid].patientId # resp.pid)) =>
     resp.data \cap PatientItems(resp.pid) = {}

\* C13: every appointment with consentGranted = true has status 'accepted', in
\* every state reached by requestAppointment, updateAppointmentStatus,
\* grantConsent and revokeConsent.
C13_ConsentFollowsAcceptance ==
  \A a \in DOMAIN appointments :
    appointments[a].consentGranted => appointments[a].status = "accepted"

\* C14: updateAppointmentStatus and saveDoctorNotes run by a user who is not
\* the appointment's doctor, and grantConsent and revokeConsent run by a user
\* who is not the appointment's patient, leave the appointment document
\* unchanged.
C14_MutationAuthority ==
  [][(/\ resp'.aid \in DOMAIN appointments
      /\ \/ /\ resp'.op \in {"updateAppointmentStatus", "saveDoctorNotes"}
            /\ resp'.uid # appointments[resp'.aid].doctorId
         \/ /\ resp'.op \in {"grantConsent", "revokeConsent"}
            /\ resp'.uid # appointments[resp'.aid].patientId) =>
       UNCHANGED appointments]_vars

\* C15: deleteReport(reportId) removes the medicalReports document, and only
\* that document, only when the current user's uid equals the report's
\* patientId; with no authenticated user, a missing report, a declined
\* confirmation or a report owned by someone else the collection is unchanged.
C15_DeleteByOwnerOnly ==
  [][resp'.op = "deleteReport" =>
       /\ medicalReports' # medicalReports =>
            /\ resp'.rid \in DOMAIN medicalReports
            /\ medicalReports[resp'.rid].patientId = resp'.uid
            /\ medicalReports' = [x \in DOMAIN medicalReports \ {resp'.rid} |-> medicalReports[x]]
       /\ (\/ resp'.uid = NoUser
           \/ resp'.rid \notin DOMAIN medicalReports
           \/ resp'.msg = "declined"
           \/ resp'.pid # resp'.uid) => UNCHANGED medicalReports]_vars

C15_Witness ==
  /\ resp.op = "deleteReport" /\ resp.success
  /\ resp.uid \in Uids /\ resp.pid = resp.uid
  /\ resp.rid \notin DOMAIN medicalReports

\* the client API functions documented as returning { success, data?, error? }
ClientApiOps ==
  {"registerUser", "loginUser", "logoutUser", "getUserProfile", "saveHealthProfile",
   "getHealthProfile", "uploadMedicalReport", "getMedicalReports", "getReportSignedUrl",
   "analyzeMedicalReportAI", "getPatientReportsForDoctor"}

\* C16: every client API function resolves to a { success, ... } object and
\* never rejects, also when the backend answers non-200, the body is not JSON
\* or the network request fails.
C16_ClientApiNeverRejects ==
  resp.op \in ClientApiOps => ~resp.rejected

PlanOps == {"generateDietPlan", "generateExercisePlan"}

C18_ExplanationDisabled ==
  [][resp'.op \in GenerateExplanationOps =>
       LET reports == IF resp'.op = "generateExplanationExpress" THEN SrvReports ELSE medicalReports IN
       /\ ~resp'.authHeader => resp'.status = 401
       /\ (resp'.uid \in Uids /\ resp'.rid \notin DOMAIN reports) => resp'.status = 404
       /\ (resp'.uid \in Uids /\ resp'.rid \in DOMAIN reports
             /\ reports[resp'.rid].patientId # resp'.uid) => resp'.status = 403
       /\ (resp'.uid \in Uids /\ resp'.rid \in DOMAIN reports
             /\ reports[resp'.rid].patientId = resp'.uid) =>
            /\ resp'.status = 200 /\ ~resp'.success
            /\ resp'.msg = "Report explanation is available in premium version."
       /\ ~resp'.success /\ resp'.data = {}
       /\ ~resp'.aiCalled
       /\ UNCHANGED medicalReports]_vars

C18_Witness ==
  /\ resp.op \in GenerateExplanationOps /\ resp.uid \in Uids
  /\ resp.rid \in DOMAIN medicalReports /\ medicalReports[resp.rid].patientId = resp.uid
  /\ resp.status = 200 /\ ~resp.success /\ ~resp.aiCalled

\* C19: the analyze endpoint writes aiAnalysis / analyzedAt / analyzedBy only
\* for a requester with role 'doctor' who holds an approved consent record for
\* the report's patient, after text extraction and the AI call succeeded; in
\* every other outcome (401, 403, 404, 400, 502, 500) the report documents are
\* unchanged.
C19_AnalysisWrittenOnlyOnSuccess ==
  [][resp'.op = "analyze" =>
       /\ resp'.status # 200 => UNCHANGED medicalReports
       /\ resp'.status = 200 =>
            /\ StoredRole(resp'.uid) = "doctor"
            /\ resp'.rid \in DOMAIN medicalReports
            /\ HasApprovedConsent(medicalReports[resp'.rid].patientId, resp'.uid)
            /\ resp'.aiCalled
            /\ medicalReports' = [medicalReports EXCEPT ![resp'.rid].analyzedBy = resp'.uid]]_vars

C19_Witness ==
  /\ resp.op = "analyze" /\ resp.status = 200
  /\ resp.rid \in DOMAIN medicalReports /\ medicalReports[resp.rid].analyzedBy = resp.uid
  /\ resp.uid # resp.pid

\* C20: when auth resolves with no user on a protected page P, handleRouting
\* stores P's URL under redirectAfterLogin and navigates to login.html; a
\* handleLoginSuccess then navigates to the stored URL and removes it, and a
\* handleLoginSuccess directly after that navigates to dashboard.html; on a
\* public page handleRouting never navigates.
C20_RedirectRoundTrip ==
  [][/\ (resp'.op = "authStateChanged" /\ resp'.decision = "ROUTED" /\ resp'.uid = NoUser
          /\ GetCurrentPage(guard.url) \in protectedPages) =>
            guard'.redirectAfterLogin = guard.url /\ guard'.url = "login.html"
     /\ (resp'.op = "authStateChanged" /\ resp'.decision = "ROUTED"
          /\ GetCurrentPage(guard.url) \in publicPages) =>
            guard'.url = guard.url /\ guard'.redirectAfterLogin = guard.redirectAfterLogin
     /\ (resp'.op = "handleLoginSuccess" /\ guard.redirectAfterLogin # NoUrl) =>
            guard'.url = guard.redirectAfterLogin /\ guard'.redirectAfterLogin = NoUrl
     /\ (resp'.op = "handleLoginSuccess" /\ prior'.decision = "STORED") =>
            guard'.url = "dashboard.html"]_vars

C20_Witness ==
  /\ resp.op = "handleLoginSuccess" /\ prior.decision = "STORED"
  /\ guard.url = "dashboard.html" /\ guard.redirectAfterLogin = NoUrl

\* requests to the report endpoints
\* C21: after handleRouting's role check on doctor-dashboard for a logged-in
\* user, the tab is still on doctor-dashboard only if the stored role of that
\* user is 'doctor' and the profile was read; with any other role, no profile
\* or a failed read the tab is on index.html.
C21_DoctorDashboardGate ==
  resp.op = "roleCheckDone" =>
    /\ GetCurrentPage(guard.url) = "doctor-dashboard" =>
          StoredRole(resp.uid) = "doctor" /\ ~resp.roleReadThrew
    /\ (StoredRole(resp.uid) # "doctor" \/ resp.roleReadThrew) =>
          guard = FreshGuard("index.html", guard.redirectAfterLogin)

\* a registered doctor whose profile read failed was sent to index.html
C21_Witness ==
  /\ resp.op = "roleCheckDone"
  /\ StoredRole(resp.uid) = "doctor"
  /\ resp.roleReadThrew
  /\ guard.url = "index.html"

\* C22: the instance of a page has one auth listener; the listener calls
\* handleRouting on the first auth event it gets and on no later one: a later
\* login or logout event sets currentUser and leaves the location, the
\* pending role check and the count of routing calls as they were; a further
\* `new AuthGuard()` changes nothing of the instance.
C22_ListenerRoutesOnce ==
  [][/\ guard'.subscriptions <= 1
     /\ guard'.routingCalls <= 1
     /\ (resp'.op = "authStateChanged" /\ ~guard.authResolved) => resp'.decision = "ROUTED"
     /\ (resp'.op = "authStateChanged" /\ guard.authResolved) =>
           /\ resp'.decision = "NONE"
           /\ guard'.currentUser = resp'.uid
           /\ guard'.url = guard.url
           /\ guard'.roleCheckFor = guard.roleCheckFor
           /\ guard'.routingCalls = guard.routingCalls
     /\ resp'.op = "newAuthGuard" => guard' = guard]_vars

\* a logout event after the first event left the tab on a protected page
C22_Witness ==
  /\ resp.op = "authStateChanged"
  /\ resp.decision = "NONE"
  /\ guard.routingCalls = 1
  /\ guard.currentUser = NoUser
  /\ GetCurrentPage(guard.url) \in protectedPages

\* C23: a callback given to requireAuth is called at most once and only with
\* a user; the callbacks queued before the auth state was resolved are each
\* called exactly once with the user of the first auth event when that event
\* carries a user, whether or not a callback of the queue throws.
C23_CallbackOnceWithUser ==
  [][/\ \A cb \in Callbacks :
          /\ Len(guard'.invoked[cb]) <= 1
          /\ \A i \in DOMAIN guard'.invoked[cb] : guard'.invoked[cb][i] \in Uids
     /\ (resp'.op = "authStateChanged" /\ ~guard.authResolved /\ resp'.uid \in Uids) =>
           \A i \in DOMAIN guard.listeners :
               guard'.invoked[guard.listeners[i]] = <<resp'.uid>>]_vars

\* the first auth event of the page carried a user and both queued callbacks
\* ran although both throw
C23_Witness ==
  /\ resp.op = "authStateChanged"
  /\ resp.decision = "ROUTED"
  /\ guard.throwing = Callbacks
  /\ \A cb \in Callbacks : guard.invoked[cb] = <<resp.uid>>

ServerUploadOps == {"upload", "uploadServerless"}
UploadOps == ServerUploadOps \cup {"uploadMedicalReport"}

C26_MetadataAfterStorage ==
  [][/\ \A id \in DOMAIN medicalReports' \ DOMAIN medicalReports :
          /\ resp'.op \in UploadOps
          /\ ~resp'.storageFailed
          /\ medicalReports'[id].storagePath \in storage'
     /\ (resp'.op \in UploadOps /\ resp'.storageFailed) =>
           /\ medicalReports' = medicalReports
           /\ ~resp'.success
           /\ resp'.op \in ServerUploadOps => resp'.status >= 400]_vars

\* an upload answered 200 left a document whose object is in the bucket
C26_Witness ==
  /\ resp.op \in ServerUploadOps
  /\ resp.status = 200
  /\ resp.rid \in DOMAIN medicalReports
  /\ medicalReports[resp.rid].storagePath \in storage

RequestOps == {"requestAppointment", "requestAppointmentFastPath"}

\* C27: an appointment document is added by requestAppointment (real
\* implementation or fast path) with status 'pending', consentGranted false
\* and the caller's uid as patientId; a call without a user, or naming a doctor
\* without a users document, resolves to success:false and adds nothing; no
\* call rejects.
C27_RequestAppointmentPending ==
  [][resp'.op \in RequestOps =>
       /\ ~resp'.rejected
       /\ \A id \in DOMAIN appointments' \ DOMAIN appointments :
             /\ appointments'[id].status = "pending"
             /\ ~appointments'[id].consentGranted
             /\ resp'.uid \in Uids /\ appointments'[id].patientId = resp'.uid
       /\ (resp'.uid = NoUser \/ resp'.did \notin DOMAIN users) =>
             ~resp'.success /\ appointments' = appointments]_vars

\* C24: a call of callGeminiGenerateText returns (it throws nothing) an
\* object with a boolean success; it makes at most two generateContent
\* requests, the second only after a 404 answer to the first and for a resolved
\* model other than the requested one; success comes with a non-empty text; a
\* request ended by the timeout gives success:false.
C24_GeminiCallBounded ==
  resp.op = "callGeminiGenerateText" =>
    LET c == geminiSrv.call IN
    /\ c.thrown = ""
    /\ c.success \in BOOLEAN /\ c.success = resp.success
    /\ Len(c.requests) <= 2
    /\ Len(c.requests) = 2 =>
         /\ c.first = "404"
         /\ c.candidate \notin {NoModel, c.model}
         /\ c.requests = <<c.model, c.candidate>>
    /\ c.success => c.text # ""
    /\ (c.first = "abort" \/ c.retry = "abort") => ~c.success

\* the retry with another model was made and ran into the timeout
C24_Witness ==
  /\ resp.op = "callGeminiGenerateText"
  /\ Len(geminiSrv.call.requests) = 2
  /\ geminiSrv.call.retry = "abort"
  /\ ~geminiSrv.call.success

EndpointOps == SignedUrlOps \cup GenerateExplanationOps \cup {"analyze", "upload", "uploadServerless"}

\* C11: every report endpoint (upload, signed-url, analyze,
\* generate-explanation; Express and serverless) answers a request without an
\* 'Authorization: Bearer' header with an error status, and such a request
\* leaves the medicalReports collection as it was.
C11_BearerTokenRequired ==
  [][(resp'.op \in EndpointOps /\ ~resp'.authHeader) =>
       /\ resp'.status >= 400 /\ ~resp'.success
       /\ UNCHANGED medicalReports]_vars
====
